---- MODULE Spec2Model ----
(***************************************************************************)
(* A model of src/trading/time_models.py: the stationarity tests           *)
(* (adf_test, kpss_test, test_autocorrelation), the preparation of the     *)
(* series in testing_stationary and arima_models, the differencing-order   *)
(* recommendation (the ndiffs calls), the calendar-year train/test split   *)
(* of exponential_smoothing and decompose_with_prophet, and the forecasts  *)
(* of exponential_smoothing and arima_models.                              *)
(*                                                                         *)
(* Numbers.  An observation is a record [nan, v]: a missing value (NaN) or *)
(* an integer.  Prices are powers of two, so that the logarithm of         *)
(* np.log is exact in integers (base 2; the tests are invariant under the  *)
(* positive factor ln 2).  Test statistics and p-values are integers in    *)
(* thousandths.                                                            *)
(*                                                                         *)
(* Library routines.  adfuller, kpss (statsmodels) and ndiffs (pmdarima)   *)
(* are called by the source and are modelled by what the call does: the    *)
(* control flow of the routine and its error conditions.  The numerical    *)
(* outcome of a hypothesis test (statistic, p-value) is an input, drawn    *)
(* from a small set wherever a test is run.                                *)
(*                                                                         *)
(* Scale.  The calendar is scaled down: a week, a month and a year are a   *)
(* few days long, and a table holds a handful of trading days, so that a  *)
(* series has the few observations at which the length checks of the      *)
(* tests decide.  The ACF/PACF plots are counted as figures, not drawn.   *)
(***************************************************************************)
EXTENDS Integers, Sequences, FiniteSets, TLC

VARIABLES
    ascending, \* whether the input arrived with strictly ascending dates
    indexOk,   \* whether the input has a datetime index
    epoch,     \* the calendar year of day 0
    fn,        \* the analysis that is run
    series,    \* the rows of the series that is split
    train_set, \* goog_train / df_train
    test_set,  \* goog_test / df_test / test
    forecasts, \* the predictions of each fitted model, in the order of the steps
    data,      \* the price table: observations [date, close] in index order
    df,        \* testing_stationary / arima_models: the working columns
    pc,        \* call stack: the position of the run, innermost first
    x,         \* the series bound to parameter x of the function being run
    test,      \* ndiffs: the test method ('adf', 'kpss', 'pp')
    max_d,     \* ndiffs: the cap on the number of differences
    pv,        \* ndiffs: p-value the chosen test reports at each order
    nd,        \* value returned by the last ndiffs call
    ret,       \* record returned by the last adf_test / kpss_test call
    adf_results,  \* test_autocorrelation: local adf_results
    kpss_results, \* test_autocorrelation: local kpss_results
    err,       \* the exception that ended the run, "none" while it runs
    stdout,    \* lines printed so far
    figs,      \* number of figures saved so far
    computed   \* number of test statistics computed so far

vars == <<ascending, indexOk, epoch, fn, series, train_set, test_set,
          forecasts, data, df, pc, x, test, max_d, pv, nd, ret, adf_results, kpss_results, err,
          stdout, figs, computed>>

\* what no analysis changes, and what only the train/test split and the
\* forecasts change
fixed == <<ascending, indexOk, epoch, fn>>
split == <<series, train_set, test_set, forecasts>>

----------------------------------------------------------------------------
(* Bounds of the model *)

MaxLen == 5        \* longest series handed to ndiffs directly
MaxCap == 3        \* largest cap (max_d) tried
MaxObs == 6        \* most trading days in the price table
MaxDay == 9        \* dates are days 0..MaxDay after 1 January of the epoch year
DaysPerWeek == 1   \* calendar scale: days in a week
DaysPerMonth == 2  \* calendar scale: days in a month
MonthsPerYear == 3 \* calendar scale: months in a year

----------------------------------------------------------------------------
(* Numbers with missing values *)

NaN == [nan |-> TRUE, v |-> 0]
Num(n) == [nan |-> FALSE, v |-> n]
IsNaN(a) == a.nan

\* a - b in floating point: NaN is absorbing
Sub(a, b) == IF a.nan \/ b.nan THEN NaN ELSE Num(a.v - b.v)

\* a == b in floating point: NaN equals nothing, not even itself
FEq(a, b) == ~a.nan /\ ~b.nan /\ a.v = b.v

\* prices: powers of two
Prices == {1, 4}

RECURSIVE Log2(_)
Log2(n) == IF n <= 1 THEN 0 ELSE 1 + Log2(n \div 2)

\* np.log on a price
Log(a) == IF a.nan THEN NaN ELSE Num(Log2(a.v))

HasNaN(s) == \E i \in 1..Len(s) : IsNaN(s[i])

\* Series of length lo..hi over the prices, no missing value
CleanSeries(lo, hi) ==
    UNION {[1..n -> {Num(p) : p \in Prices}] : n \in lo..hi}

----------------------------------------------------------------------------
(* The calendar and the pandas operations the source applies *)

Year(d) == epoch + (d \div (DaysPerMonth * MonthsPerYear))

Closes == {Num(p) : p \in Prices}

\* the rows of a set of trading days with their closing prices, by date
RECURSIVE ByDate(_, _)
ByDate(days, close) ==
    IF days = {} THEN <<>>
    ELSE LET hi == CHOOSE d \in days : \A e \in days : e <= d
         IN  Append(ByDate(days \ {hi}, close),
                    [date |-> hi, close |-> close[hi]])

Reverse(t) == [i \in 1..Len(t) |-> t[Len(t) + 1 - i]]

\* How a table arrives: in date order, in descending order, or with the
\* last timestamp repeated (the repeated row may lack its price)
Arrivals ==
    {[kind |-> "ascending", close |-> NaN], [kind |-> "descending", close |-> NaN]}
    \cup [kind : {"repeated"}, close : Closes \cup {NaN}]

Arrange(t, how) ==
    IF how.kind = "descending" THEN Reverse(t)
    ELSE IF how.kind = "repeated" /\ t # <<>>
    THEN Append(t, [date |-> t[Len(t)].date, close |-> how.close])
    ELSE t

\* the sets of at most MaxObs trading days
DaySets == {ds \in SUBSET (0..MaxDay) : Cardinality(ds) <= MaxObs}

\* the closing price of each day: flat, alternating by day, alternating by
\* month
PricePaths ==
    {[d \in 0..MaxDay |-> Num(1)],
     [d \in 0..MaxDay |-> IF d % 2 = 0 THEN Num(1) ELSE Num(4)],
     [d \in 0..MaxDay |->
         IF (d \div DaysPerMonth) % 2 = 0 THEN Num(4) ELSE Num(1)]}

\* dates strictly ascending: sorted, no duplicate timestamp
StrictlyAscending(t) == \A i \in 1..(Len(t) - 1) : t[i].date < t[i + 1].date

\* sort_index(): ascending by date, equal dates in their order of arrival
RECURSIVE Insert(_, _)
Insert(t, o) ==
    IF t = <<>> THEN <<o>>
    ELSE IF t[Len(t)].date <= o.date THEN Append(t, o)
    ELSE Append(Insert(SubSeq(t, 1, Len(t) - 1), o), t[Len(t)])

RECURSIVE sort_index(_)
sort_index(t) ==
    IF t = <<>> THEN <<>>
    ELSE Insert(sort_index(SubSeq(t, 1, Len(t) - 1)), t[Len(t)])

\* t["a":"b"]: the rows whose year lies in lo..hi
SliceYears(t, lo, hi) ==
    SelectSeq(t, LAMBDA o : lo <= Year(o.date) /\ Year(o.date) <= hi)

\* GroupBy.last(): the last value of the group that is not missing
last(g) ==
    LET valid == SelectSeq(g, LAMBDA o : ~o.close.nan)
    IN  IF valid = <<>> THEN NaN ELSE valid[Len(valid)].close

\* t.resample(rule).last(): the rows are sorted by date, one bin per period
\* of `days` days from the first row's period to the last row's; a period
\* without rows gets a missing value.  The result maps period -> value.
resample_last(t, days) ==
    IF t = <<>> THEN <<>>
    ELSE LET s  == sort_index(t)
             lo == s[1].date \div days
             hi == s[Len(s)].date \div days
         IN  [i \in 1..(hi - lo + 1) |->
                [date  |-> (lo + i - 1) * days,
                 close |-> last(SelectSeq(s,
                               LAMBDA o : o.date \div days = lo + i - 1))]]

\* the values of a column
Column(t) == [i \in 1..Len(t) |-> t[i].close]

\* Series.dropna()
dropna(s) == SelectSeq(s, LAMBDA a : ~a.nan)

\* DataFrame.dropna(): the rows without a missing value
dropna_rows(t) == SelectSeq(t, LAMBDA o : ~o.close.nan)

\* Series.diff(1): the first element is missing
pd_diff(s) ==
    [i \in 1..Len(s) |-> IF i = 1 THEN NaN ELSE Sub(s[i], s[i - 1])]

\* np.log(series)
np_log(s) == [i \in 1..Len(s) |-> Log(s[i])]

----------------------------------------------------------------------------
(* pmdarima.arima.ndiffs, as called at lines 254-256 *)

Tests == {"adf", "kpss", "pp"}

\* significance level of ndiffs (its default, 0.05), in thousandths
Alpha == 50

\* p-values a test can report, in thousandths, or NaN
PVals == {NaN, Num(46), Num(50), Num(54)}

\* pmdarima.utils.diff(x): lag-1 differences, one element shorter
diff(s) == [i \in 1..(Len(s) - 1) |-> Sub(s[i + 1], s[i])]

\* pmdarima.utils.is_constant(x): (x == x[0]).all()
is_constant(s) == \A i \in 1..Len(s) : FEq(s[i], s[1])

\* one polarity for every test
should_diff_one_polarity(t, p) ==
    IF p.nan THEN FALSE ELSE p.v > Alpha

\* should_diff of the chosen test: ADF and PP difference while the unit-root
\* null is not rejected (pval > alpha), KPSS while the stationarity null is
\* rejected (pval < alpha).  A comparison with NaN is False.
should_diff(t, p) ==
    IF p.nan THEN FALSE
    ELSE IF t = "kpss" THEN p.v < Alpha
    ELSE p.v > Alpha

\* the loop without its bound on d
RECURSIVE ndiffs_nocap(_, _, _, _, _, _)
ndiffs_nocap(s, t, cap, p, d, dodiff) ==
    IF ~(dodiff /\ d <= cap) THEN d
    ELSE LET d1 == d + 1
             s1 == diff(s)
         IN  IF is_constant(s1) THEN d1
             ELSE IF p[d1].nan THEN d1 - 1
             ELSE ndiffs_nocap(s1, t, cap, p, d1, should_diff(t, p[d1]))

\* the loop deciding on the verdict of the order before
RECURSIVE ndiffs_loop_stale(_, _, _, _, _, _)
ndiffs_loop_stale(s, t, cap, p, d, dodiff) ==
    IF ~(dodiff /\ d < cap) THEN d
    ELSE LET d1 == d + 1
             s1 == diff(s)
         IN  IF is_constant(s1) THEN d1
             ELSE IF p[d1].nan THEN d1 - 1
             ELSE ndiffs_loop_stale(s1, t, cap, p, d1, should_diff(t, p[d]))

\* the while loop of ndiffs: d differences taken so far, s the series
\* differenced d times, dodiff the verdict of the test on it
RECURSIVE ndiffs_loop(_, _, _, _, _, _)
ndiffs_loop(s, t, cap, p, d, dodiff) ==
    IF ~(dodiff /\ d < cap) THEN d
    ELSE LET d1 == d + 1
             s1 == diff(s)
         IN  IF is_constant(s1) THEN d1
             ELSE IF p[d1].nan THEN d1 - 1
             ELSE ndiffs_loop(s1, t, cap, p, d1, should_diff(t, p[d1]))

ndiffs(s, t, cap, p) ==
    IF is_constant(s) THEN 0
    ELSE IF p[0].nan THEN 0
    ELSE ndiffs_loop(s, t, cap, p, 0, should_diff(t, p[0]))

----------------------------------------------------------------------------
(* statsmodels adfuller and kpss, as called at lines 55 and 82 *)

\* adfuller(x, autolag="AIC"), regression "c": the largest lag is
\* nobs // 2 - 2, and a negative one raises ValueError, so the shortest
\* series the test accepts has this many observations
AdfMinObs == 4

\* What a test that runs can report: statistic and p-value, in thousandths.
\* (The records of the source also carry the lags and the critical values.)
AdfOutcomes == [stat : {-2871}, pval : {46, 54}]
KpssOutcomes == [stat : {347}, pval : {46, 54}]

NoResult == [stat |-> 0, pval |-> 0]

\* "{:.2f}".format(v): v in thousandths, the result in hundredths
Format2f(v) ==
    IF v >= 0 THEN (v + 5) \div 10 ELSE -((5 - v) \div 10)

Line(k, st, p) == [k |-> k, stat |-> st, pval |-> p]
Note(k) == Line(k, 0, 0)

----------------------------------------------------------------------------
(* The functions of the source, one action per function body or per stretch *)
(* of a body between two calls.  pc is the call stack.                      *)

Call(callee, after) == pc' = <<callee, after>> \o Tail(pc)
Return == pc' = Tail(pc)
Raise(e) == pc' = <<"raised">> /\ err' = e

\* adf_test printing its result itself
adf_test_prints ==
    /\ Head(pc) = "adf_test"
    /\ IF Len(x) < AdfMinObs
       THEN Raise("ValueError") /\ UNCHANGED <<ret, computed, stdout>>
       ELSE IF HasNaN(x)
       THEN Raise("MissingDataError") /\ UNCHANGED <<ret, computed, stdout>>
       ELSE \E r \in AdfOutcomes :
               /\ ret' = r
               /\ computed' = computed + 1
               /\ stdout' = Append(stdout, Line("ADF", r.stat, r.pval))
               /\ Return
               /\ UNCHANGED err
    /\ UNCHANGED <<fixed, split, data, df, x, test, max_d, pv, nd,
                   adf_results, kpss_results, figs>>

\* lines 39-59
adf_test ==
    /\ Head(pc) = "adf_test"
    /\ IF Len(x) < AdfMinObs
       THEN Raise("ValueError") /\ UNCHANGED <<ret, computed>>
       ELSE IF HasNaN(x)
       THEN Raise("MissingDataError") /\ UNCHANGED <<ret, computed>>
       ELSE \E r \in AdfOutcomes :
               /\ ret' = r
               /\ computed' = computed + 1
               /\ Return
               /\ UNCHANGED err
    /\ UNCHANGED <<fixed, split, data, df, x, test, max_d, pv, nd,
                   adf_results, kpss_results, stdout, figs>>

\* kpss(x, regression=h0_type, nlags="auto"): the lag selected from the data
\* is capped at nobs - 1, no length is refused.  The selection divides by a
\* variance estimate that is zero or undefined on fewer than this many
\* observations, and the conversion of the lag to an integer then fails
KpssMinObs == 3

\* lines 62-86.  The lag selection fails the same way on a constant series
\* and on a missing value.
kpss_test ==
    /\ Head(pc) = "kpss_test"
    /\ IF HasNaN(x) \/ is_constant(x)
       THEN Raise("ValueError") /\ UNCHANGED <<ret, computed>>
       ELSE IF Len(x) < KpssMinObs
       THEN Raise("OverflowError") /\ UNCHANGED <<ret, computed>>
       ELSE \E r \in KpssOutcomes :
               /\ ret' = r
               /\ computed' = computed + 1
               /\ Return
               /\ UNCHANGED err
    /\ UNCHANGED <<fixed, split, data, df, x, test, max_d, pv, nd,
                   adf_results, kpss_results, stdout, figs>>

\* the body of ndiffs, called at lines 254-256
ndiffs_call ==
    /\ Head(pc) = "ndiffs"
    /\ nd' = ndiffs(x, test, max_d, pv)
    /\ Return
    /\ UNCHANGED <<fixed, split, data, df, x, test, max_d, pv, ret,
                   adf_results, kpss_results, err, stdout, figs, computed>>

\* test_autocorrelation, line 113
ta_l113 ==
    /\ Head(pc) = "test_autocorrelation"
    /\ Call("adf_test", "ta_l114")
    /\ UNCHANGED <<fixed, split, data, df, x, test, max_d, pv, nd, ret,
                   adf_results, kpss_results, err, stdout, figs, computed>>

\* test_autocorrelation, lines 113-114
ta_l114 ==
    /\ Head(pc) = "ta_l114"
    /\ adf_results' = ret
    /\ Call("kpss_test", "ta_l115")
    /\ UNCHANGED <<fixed, split, data, df, x, test, max_d, pv, nd, ret,
                   kpss_results, err, stdout, figs, computed>>

\* the second line printed from the first record
ta_l115_merged ==
    /\ Head(pc) = "ta_l115"
    /\ kpss_results' = ret
    /\ stdout' = stdout \o
          <<Line("ADF", Format2f(adf_results.stat), Format2f(adf_results.pval)),
            Line("KPSS", Format2f(adf_results.stat), Format2f(adf_results.pval))>>
    /\ Return
    /\ UNCHANGED <<fixed, split, data, df, x, test, max_d, pv, nd, ret,
                   adf_results, err, figs, computed>>

\* test_autocorrelation, lines 114-128: the two print calls, the ACF/PACF
\* figure (returned, not saved)
ta_l115 ==
    /\ Head(pc) = "ta_l115"
    /\ kpss_results' = ret
    /\ stdout' = stdout \o
          <<Line("ADF", Format2f(adf_results.stat), Format2f(adf_results.pval)),
            Line("KPSS", Format2f(ret.stat), Format2f(ret.pval))>>
    /\ Return
    /\ UNCHANGED <<fixed, split, data, df, x, test, max_d, pv, nd, ret,
                   adf_results, err, figs, computed>>

\* the cap ndiffs applies when the call passes none (lines 254-256)
DefaultMaxD == 2

\* p-values the test of an ndiffs call of the script reports: on the same
\* side of the significance level at every order
PipelinePVals == {[d \in 0..(MaxCap + 1) |-> Num(p)] : p \in {46, 54}}

NoColumns == [price |-> <<>>, price_log |-> <<>>, price_log_diff |-> <<>>,
              df_diff |-> <<>>]

\* testing_stationary, lines 200-205: monthly resampling, then adf_test on
\* df.price; resample raises TypeError on an index that holds no dates
testing_stationary ==
    /\ Head(pc) = "testing_stationary"
    /\ IF ~indexOk
       THEN Raise("TypeError") /\ UNCHANGED <<df, x>>
       ELSE /\ df' = [NoColumns EXCEPT
                        !.price = Column(resample_last(data, DaysPerMonth))]
            /\ x' = df'.price
            /\ Call("adf_test", "ts_l206")
            /\ UNCHANGED err
    /\ UNCHANGED <<fixed, split, data, test, max_d, pv, nd, ret,
                   adf_results, kpss_results, stdout, figs, computed>>

\* lines 205-206: ic prints the ADF record, then kpss_test on df.price
ts_l206 ==
    /\ Head(pc) = "ts_l206"
    /\ stdout' = Append(stdout, Note("ic"))
    /\ x' = df.price
    /\ Call("kpss_test", "ts_l208")
    /\ UNCHANGED <<fixed, split, data, df, test, max_d, pv, nd, ret,
                   adf_results, kpss_results, err, figs, computed>>

\* lines 206-233: ic prints the KPSS record, the ACF/PACF figure is saved,
\* the log column is added and plotted, test_autocorrelation(df.price_log).
\* (The rolling mean and deviation columns are plotted only, never tested.)
ts_l208 ==
    /\ Head(pc) = "ts_l208"
    /\ stdout' = Append(stdout, Note("ic"))
    /\ figs' = figs + 2
    /\ df' = [df EXCEPT !.price_log = np_log(df.price)]
    /\ x' = df'.price_log
    /\ Call("test_autocorrelation", "ts_l234")
    /\ UNCHANGED <<fixed, split, data, test, max_d, pv, nd, ret,
                   adf_results, kpss_results, err, computed>>

\* lines 234-250: the first differences of the log column, plotted;
\* test_autocorrelation(df.price_log_diff.dropna())
ts_l234 ==
    /\ Head(pc) = "ts_l234"
    /\ figs' = figs + 2
    /\ df' = [df EXCEPT !.price_log_diff = pd_diff(df.price_log)]
    /\ x' = dropna(df'.price_log_diff)
    /\ Call("test_autocorrelation", "ts_l251")
    /\ UNCHANGED <<fixed, split, data, test, max_d, pv, nd, ret,
                   adf_results, kpss_results, err, stdout, computed>>

\* lines 251-254: ndiffs(df.price, test='adf')
ts_l251 ==
    /\ Head(pc) = "ts_l251"
    /\ figs' = figs + 1
    /\ x' = df.price
    /\ test' = "adf"
    /\ max_d' = DefaultMaxD
    /\ pv' \in PipelinePVals
    /\ Call("ndiffs", "ts_l255")
    /\ UNCHANGED <<fixed, split, data, df, nd, ret, adf_results,
                   kpss_results, err, stdout, computed>>

\* lines 254-255: ic prints the ADF suggestion; ndiffs(df.price, test='kpss')
ts_l255 ==
    /\ Head(pc) = "ts_l255"
    /\ stdout' = Append(stdout, Note("ic"))
    /\ x' = df.price
    /\ test' = "kpss"
    /\ max_d' = DefaultMaxD
    /\ pv' \in PipelinePVals
    /\ Call("ndiffs", "ts_l256")
    /\ UNCHANGED <<fixed, split, data, df, nd, ret, adf_results,
                   kpss_results, err, figs, computed>>

\* lines 255-256: ic prints the KPSS suggestion; ndiffs(df.price, test='pp')
ts_l256 ==
    /\ Head(pc) = "ts_l256"
    /\ stdout' = Append(stdout, Note("ic"))
    /\ x' = df.price
    /\ test' = "pp"
    /\ max_d' = DefaultMaxD
    /\ pv' \in PipelinePVals
    /\ Call("ndiffs", "ts_l257")
    /\ UNCHANGED <<fixed, split, data, df, nd, ret, adf_results,
                   kpss_results, err, figs, computed>>

\* lines 256-258: ic prints the PP suggestion and the two seasonal ones
ts_l257 ==
    /\ Head(pc) = "ts_l257"
    /\ stdout' = stdout \o <<Note("ic"), Note("ic"), Note("ic")>>
    /\ Return
    /\ UNCHANGED <<fixed, split, data, df, x, test, max_d, pv, nd, ret,
                   adf_results, kpss_results, err, figs, computed>>

\* results.forecast(steps) of a model fitted on `train`, whose observations
\* are `days` apart: the periods predicted, step k being the k-th period
\* after the last observation of `train`
forecast(train, steps, days) ==
    [k \in 1..steps |-> train[Len(train)].date + k * days]

\* the predictions as a series: each under the period it predicts
Predictions(periods) ==
    [k \in 1..Len(periods) |-> [period |-> periods[k], date |-> periods[k]]]

\* the predictions after set_index(index): the k-th under the k-th label
set_index(periods, index) ==
    [k \in 1..Len(periods) |-> [period |-> periods[k], date |-> index[k].date]]

\* forecast(0): an error or no prediction, by the version of the library
ForecastWorks(steps) == IF steps = 0 THEN BOOLEAN ELSE {TRUE}

\* the years arima_models keeps for fitting (line 373)
ArimaFrom == 2010
ArimaTo == 2020

\* arima_models, lines 373-384: the table is sorted and cut to 2010-2020,
\* resampled by week with the empty weeks dropped, differenced with the
\* missing first element dropped; info() prints; a figure is saved;
\* test_autocorrelation(df_diff)
arima_models ==
    /\ Head(pc) = "arima_models"
    /\ IF ~indexOk
       THEN Raise("TypeError") /\ UNCHANGED <<df, x, stdout, figs>>
       ELSE LET weekly == Column(dropna_rows(resample_last(
                    SliceYears(sort_index(data), ArimaFrom, ArimaTo),
                    DaysPerWeek)))
            IN  /\ df' = [NoColumns EXCEPT
                            !.price = weekly,
                            !.df_diff = dropna(pd_diff(weekly))]
                /\ x' = df'.df_diff
                /\ stdout' = stdout \o <<Note("info"), Note("info")>>
                /\ figs' = figs + 1
                /\ Call("test_autocorrelation", "am_l385")
                /\ UNCHANGED err
    /\ UNCHANGED <<fixed, split, data, test, max_d, pv, nd, ret,
                   adf_results, kpss_results, computed>>

\* the months of 2021 arima_models keeps for testing (line 459): January
\* to the eighth of the twelve months
ArimaTestYear == 2021
ArimaTestMonths == 8
MonthsInYear == 12

MonthOfYear(d) == (d \div DaysPerMonth) % MonthsPerYear

\* t["2021-1":"2021-8"] on the calendar of the model
SliceMonths(t, year, months) ==
    SelectSeq(t, LAMBDA o :
        /\ Year(o.date) = year
        /\ MonthOfYear(o.date) * MonthsInYear < months * MonthsPerYear)

ArimaModels == {"arima", "auto_arima"}

\* arima_models, lines 385-503: the ACF/PACF figure is saved; ARIMA(2,1,1)
\* and the two auto_arima searches are fitted on df, the weekly series of
\* 2010-2020 without its empty weeks (summaries printed, diagnostics
\* plotted); the test set is the weekly series of January-August 2021
\* without its empty weeks; each model forecasts len(test) steps and the
\* predictions are put under the index of the test set; two figures
am_l385 ==
    /\ Head(pc) = "am_l385"
    /\ LET train == dropna_rows(resample_last(
                        SliceYears(sort_index(data), ArimaFrom, ArimaTo),
                        DaysPerWeek))
           tst == dropna_rows(resample_last(
                      SliceMonths(sort_index(data), ArimaTestYear,
                                  ArimaTestMonths),
                      DaysPerWeek))
           n_forecasts == Len(tst)
       IN  /\ train_set' = train
           /\ test_set' = tst
           /\ stdout' = stdout \o <<Note("ic"), Note("ic")>>
           /\ \E works \in ForecastWorks(n_forecasts) :
                 IF works
                 THEN /\ forecasts' = [m \in ArimaModels |->
                             set_index(forecast(train, n_forecasts,
                                                DaysPerWeek), tst)]
                      /\ figs' = figs + 5
                      /\ Return
                      /\ UNCHANGED err
                 ELSE /\ Raise("ValueError")
                      /\ figs' = figs + 3
                      /\ UNCHANGED forecasts
    /\ UNCHANGED <<fixed, series, data, df, x, test, max_d, pv, nd, ret,
                   adf_results, kpss_results, computed>>

\* the years the script keeps (line 510)
MainFrom == 2010
MainTo == 2021

\* lines 506-517: the table is sorted and cut to 2010-2021, info() prints,
\* and one of the analyses is run on it
main ==
    /\ Head(pc) = "main"
    /\ data' = SliceYears(sort_index(data), MainFrom, MainTo)
    /\ stdout' = Append(stdout, Note("info"))
    /\ fn' \in {"testing_stationary", "arima_models"}
    /\ pc' = <<fn', "done">>
    /\ UNCHANGED <<ascending, indexOk, epoch, series, train_set,
                   test_set, forecasts, df, x, test, max_d, pv, nd, ret,
                   adf_results, kpss_results, err, figs, computed>>

----------------------------------------------------------------------------
(* The script: a price table, then one analysis *)

\* the year of the first day of the table
ScriptEpochs == {2020}

NoPVals == [d \in 0..(MaxCap + 1) |-> NaN]

\* nothing computed, printed or saved yet
Quiet ==
    /\ series = <<>>
    /\ train_set = <<>>
    /\ test_set = <<>>
    /\ forecasts = <<>>
    /\ df = NoColumns
    /\ nd = 0
    /\ ret = NoResult
    /\ adf_results = NoResult
    /\ kpss_results = NoResult
    /\ err = "none"
    /\ stdout = <<>>
    /\ figs = 0
    /\ computed = 0

\* ... and no call of ndiffs prepared
Idle ==
    /\ x = <<>>
    /\ test = "adf"
    /\ max_d = DefaultMaxD
    /\ pv = NoPVals
    /\ Quiet

Init ==
    /\ \E days \in DaySets : \E close \in PricePaths :
          \E how \in Arrivals : data = Arrange(ByDate(days, close), how)
    /\ indexOk \in BOOLEAN
    /\ ascending = StrictlyAscending(data)
    /\ epoch \in ScriptEpochs
    /\ fn = "none"
    /\ pc = <<"main">>
    /\ Idle

Next ==
    \/ main
    \/ testing_stationary \/ ts_l206 \/ ts_l208 \/ ts_l234
    \/ ts_l251 \/ ts_l255 \/ ts_l256 \/ ts_l257
    \/ arima_models \/ am_l385
    \/ ta_l113 \/ ta_l114 \/ ta_l115
    \/ adf_test \/ kpss_test \/ ndiffs_call

Spec == Init /\ [][Next]_vars

----------------------------------------------------------------------------
(* The tests called on a series directly *)

AnySeries(lo, hi) ==
    UNION {[1..n -> {Num(p) : p \in Prices} \cup {NaN}] : n \in lo..hi}

InitTests ==
    /\ data = <<>>
    /\ indexOk = TRUE
    /\ ascending = TRUE
    /\ epoch \in ScriptEpochs
    /\ fn = "none"
    /\ pc \in {<<"adf_test", "done">>, <<"kpss_test", "done">>,
               <<"test_autocorrelation", "done">>}
    /\ x \in AnySeries(0, MaxLen)
    /\ test = "adf"
    /\ max_d = DefaultMaxD
    /\ pv = NoPVals
    /\ Quiet

NextTests == ta_l113 \/ ta_l114 \/ ta_l115 \/ adf_test \/ kpss_test

SpecTests == InitTests /\ [][NextTests]_vars

----------------------------------------------------------------------------
(* The recommendation as a function of its inputs: the series, the test    *)
(* method, the cap and the p-value the test reports at each order the loop  *)
(* can reach                                                                *)

InitNdiffs ==
    /\ data = <<>>
    /\ indexOk = TRUE
    /\ ascending = TRUE
    /\ epoch \in ScriptEpochs
    /\ fn = "none"
    /\ pc = <<"ndiffs", "done">>
    /\ x \in CleanSeries(1, MaxLen)
    /\ test \in Tests
    /\ max_d \in 1..MaxCap
    /\ \E q \in [0..(max_d + 1) -> PVals] :
          pv = [d \in 0..(MaxCap + 1) |-> IF d <= max_d + 1 THEN q[d] ELSE NaN]
    /\ Quiet

NextNdiffs == ndiffs_call

SpecNdiffs == InitNdiffs /\ [][NextNdiffs]_vars

----------------------------------------------------------------------------
(* The train/test split of exponential_smoothing and decompose_with_prophet *)

\* the rows of a table, each with its position in it
Rows(t) ==
    [i \in 1..Len(t) |-> [id |-> i, date |-> t[i].date, close |-> t[i].close]]

\* the training mask with the boundary year counted in
is_train_inclusive(o, boundary) == Year(o.date) <= boundary

\* train_indices: the year of the row is before the boundary year
is_train(o, boundary) == Year(o.date) < boundary

\* the years exponential_smoothing keeps (line 271) and the first year of
\* its test set (line 275)
EsFrom == 2010
EsTo == 2018
EsBoundary == 2018

\* the first year of the test set of decompose_with_prophet (line 158)
ProphetBoundary == 2020

\* exponential_smoothing, lines 261-278: the table read is cut to 2010-2018
\* and resampled by month; the months before 2018 train, the others test
exponential_smoothing ==
    /\ Head(pc) = "exponential_smoothing"
    /\ LET goog == Rows(resample_last(SliceYears(data, EsFrom, EsTo),
                                      DaysPerMonth))
       IN  /\ series' = goog
           /\ train_set' = SelectSeq(goog, LAMBDA o : is_train(o, EsBoundary))
           /\ test_set' = SelectSeq(goog, LAMBDA o : ~is_train(o, EsBoundary))
    /\ stdout' = stdout \o <<Note("print"), Note("ic")>>
    /\ pc' = <<"es_l280">> \o Tail(pc)
    /\ UNCHANGED <<fixed, forecasts, data, df, x, test, max_d, pv, nd, ret,
                   adf_results, kpss_results, err, figs, computed>>

EsModels == {"ses_1", "ses_2", "ses_3", "hs_1", "hs_2", "hs_3", "hw_1", "hw_2"}

\* exponential_smoothing, lines 278-369: test_length = len(goog_test); the
\* series is plotted; the three simple, three Holt and two Holt-Winters
\* models are fitted on goog_train (an empty one is refused) and each
\* forecasts test_length steps; three figures
es_l280 ==
    /\ Head(pc) = "es_l280"
    /\ LET test_length == Len(test_set)
       IN  IF train_set = <<>>
           THEN /\ Raise("ValueError")
                /\ figs' = figs + 1
                /\ UNCHANGED forecasts
           ELSE \E works \in ForecastWorks(test_length) :
                   IF works
                   THEN /\ forecasts' = [m \in EsModels |->
                               Predictions(forecast(train_set, test_length,
                                                    DaysPerMonth))]
                        /\ figs' = figs + 4
                        /\ Return
                        /\ UNCHANGED err
                   ELSE /\ Raise("ValueError")
                        /\ figs' = figs + 1
                        /\ UNCHANGED forecasts
    /\ UNCHANGED <<fixed, series, train_set, test_set, data, df, x, test,
                   max_d, pv, nd, ret, adf_results, kpss_results, stdout,
                   computed>>

\* decompose_with_prophet, lines 151-163: the rows in the order given; the
\* rows before 2020 train, without those that lack a price; the others test
decompose_with_prophet ==
    /\ Head(pc) = "decompose_with_prophet"
    /\ LET rows == Rows(data)
       IN  /\ series' = rows
           /\ train_set' = dropna_rows(
                  SelectSeq(rows, LAMBDA o : is_train(o, ProphetBoundary)))
           /\ test_set' =
                  SelectSeq(rows, LAMBDA o : ~is_train(o, ProphetBoundary))
    /\ stdout' = stdout \o <<Note("ic"), Note("ic"), Note("ic"), Note("ic")>>
    /\ Return
    /\ UNCHANGED <<fixed, forecasts, data, df, x, test, max_d, pv, nd, ret,
                   adf_results, kpss_results, err, figs, computed>>

\* the year of the first day of the table: the boundary year of either
\* split falls inside the table, or after it
SplitEpochs == {2017, 2018, 2019}

\* the price paths, and one with the price missing every third day
SplitPricePaths ==
    PricePaths \cup {[d \in 0..MaxDay |-> IF d % 3 = 1 THEN NaN ELSE Num(4)]}

\* exponential_smoothing reads a download, which comes in date order;
\* decompose_with_prophet is given a table
InitSplit ==
    /\ pc \in {<<"exponential_smoothing", "done">>,
               <<"decompose_with_prophet", "done">>}
    /\ fn = Head(pc)
    /\ epoch \in SplitEpochs
    /\ \E days \in DaySets : \E close \in SplitPricePaths :
          \E how \in Arrivals :
             /\ fn = "exponential_smoothing" => how.kind # "descending"
             /\ data = Arrange(ByDate(days, close), how)
    /\ indexOk = TRUE
    /\ ascending = StrictlyAscending(data)
    /\ Idle

NextSplit == exponential_smoothing \/ es_l280 \/ decompose_with_prophet

SpecSplit == InitSplit /\ [][NextSplit]_vars

----------------------------------------------------------------------------
(* The differencing-order recommendation: C1, C2, C3 *)

\* the series differenced d times
RECURSIVE Order(_, _)
Order(s, d) == IF d = 0 THEN s ELSE Order(diff(s), d - 1)

\* The chosen test reports the series stationary at the significance level:
\* ADF and PP reject the unit root, KPSS does not reject stationarity.
TestStationary(t, p) ==
    /\ ~p.nan
    /\ (t = "kpss" => p.v >= Alpha)
    /\ (t # "kpss" => p.v <= Alpha)

\* The stopping criterion at order d: the test reports the d-th difference
\* stationary; a constant d-th difference is stationary without a test.
CriterionMet(d) ==
    is_constant(Order(x, d)) \/ TestStationary(test, pv[d])

PValuesDefined == \A d \in 0..max_d : ~pv[d].nan

\* C1: the order returned by ndiffs is an integer in 0..cap, for every
\* series, test method and cap, also when the series is not stationary at
\* any order up to the cap.
C1_OrderWithinCap ==
    pc = <<"done">> => (nd \in Int /\ 0 <= nd /\ nd <= max_d)

\* C1 witness: a series the test reports non-stationary at every order up
\* to and including the cap; the cap is returned.
C1_Witness ==
    /\ pc = <<"done">>
    /\ PValuesDefined
    /\ \A d \in 0..max_d : ~CriterionMet(d)
    /\ nd = max_d

SingleUnitRoot ==
    /\ ~is_constant(x)
    /\ ~pv[0].nan
    /\ ~TestStationary(test, pv[0])
    /\ CriterionMet(1)

\* C3: a series with a single unit root gets exactly 1 from ndiffs, for each
\* test method and every cap.
C3_SingleUnitRootGivesOne ==
    (pc = <<"done">> /\ SingleUnitRoot) => nd = 1

\* C3 witness: the KPSS method, a cap above 1, a series whose first
\* difference is not constant and is reported stationary; 1 is returned.
C3_Witness ==
    /\ pc = <<"done">>
    /\ SingleUnitRoot
    /\ ~is_constant(diff(x))
    /\ test = "kpss"
    /\ max_d > 1
    /\ nd = 1

----------------------------------------------------------------------------
(* The tests on a short series: C4 *)

\* C4: a call of adf_test or kpss_test on a series too short for the lag
\* selection (fewer than the four observations adfuller asks for) ends by
\* raising an error to its caller and returns no result record.
C4_ShortSeriesRaises ==
    [][(Head(pc) \in {"adf_test", "kpss_test"} /\ Len(x) < AdfMinObs)
          => (pc' = <<"raised">> /\ err' # "none" /\ ret' = ret)]_vars

----------------------------------------------------------------------------
(* The two tests side by side: C6 *)

\* a value of a result as a printed line shows it: to the nearest hundredth
Shown(h, v) == 10 * h - v \in -5..5

\* the two lines a step has added to the output
Added(k) == stdout'[Len(stdout) + k]

\* C6, as amended: test_autocorrelation always prints both results, the ADF
\* line with the statistic and p-value of the ADF test and the KPSS line with
\* those of the KPSS test, each rounded to two decimals, whatever the two
\* verdicts are: the call then returns without an error.
C6_BothSurfacedRounded ==
    [][Head(pc) = "ta_l115" =>
          /\ Len(stdout') = Len(stdout) + 2
          /\ Added(1).k = "ADF"
          /\ Shown(Added(1).stat, adf_results.stat)
          /\ Shown(Added(1).pval, adf_results.pval)
          /\ Added(2).k = "KPSS"
          /\ Shown(Added(2).stat, ret.stat)
          /\ Shown(Added(2).pval, ret.pval)
          /\ err' = "none"
          /\ pc' = Tail(pc)]_vars

\* C6 witness: the two tests disagree (ADF rejects the unit root, KPSS
\* rejects stationarity) and both lines are out.
C6_Witness ==
    /\ pc = <<"done">>
    /\ err = "none"
    /\ adf_results.pval < Alpha
    /\ kpss_results.pval < Alpha
    /\ Len(stdout) = 2
    /\ stdout[1].k = "ADF"
    /\ stdout[2].k = "KPSS"

\* C6 as stated: each result is surfaced exactly as its test produced it.
C6_SurfacedExactly ==
    [][Head(pc) = "ta_l115" =>
          /\ Len(stdout') = Len(stdout) + 2
          /\ 10 * Added(1).stat = adf_results.stat
          /\ 10 * Added(1).pval = adf_results.pval
          /\ 10 * Added(2).stat = ret.stat
          /\ 10 * Added(2).pval = ret.pval]_vars

----------------------------------------------------------------------------
(* The calls and the state around them: C7 *)

\* C7: a step of adf_test, kpss_test or ndiffs changes nothing but its own
\* result (or the error it raises): the series it was given, the table, the
\* columns, the results held by its callers, the output and the figures are
\* as before.
C7_NoSideEffect ==
    [][Head(pc) \in {"adf_test", "kpss_test", "ndiffs"} =>
          UNCHANGED <<x, data, df, series, train_set, test_set, test, max_d,
                      pv, adf_results, kpss_results, stdout, figs>>]_vars

\* C7 witness: testing_stationary has called adf_test, kpss_test and ndiffs
\* and goes on after the last call.
C7_Witness ==
    /\ Head(pc) = "ts_l257"
    /\ computed > 0
    /\ nd > 0
    /\ x = df.price

----------------------------------------------------------------------------
(* The series the tests are given: C8, C9 *)

\* C8: no series handed to adf_test, kpss_test, test_autocorrelation or
\* ndiffs by testing_stationary or arima_models holds a missing value.
C8_NoMissingValueTested ==
    Head(pc) \in {"adf_test", "kpss_test", "test_autocorrelation", "ndiffs"}
        => ~HasNaN(x)

\* C9: on a table whose index holds no dates, or whose dates are not
\* ascending or are repeated, no test statistic is computed.
C9_InvalidInputRejected ==
    (~indexOk \/ ~ascending) => computed = 0

----------------------------------------------------------------------------
(* The train/test split: C10 *)

Members(t) == {t[i] : i \in 1..Len(t)}

\* the first year of the test set of the analysis that ran
Boundary ==
    IF fn = "exponential_smoothing" THEN EsBoundary ELSE ProphetBoundary

\* the split has been made: the run is past it
SplitMade ==
    Head(pc) \notin {"exponential_smoothing", "decompose_with_prophet"}

\* what decompose_with_prophet leaves out of its training set
Dropped(o) ==
    fn = "decompose_with_prophet" /\ o.close.nan /\ Year(o.date) < Boundary

\* every training observation is dated before every test observation
TrainPrecedesTest ==
    \A a \in Members(train_set) : \A b \in Members(test_set) : a.date < b.date

\* the split but for the observations that belong to one of the two sets
SplitDisjointByYear ==
    /\ Members(train_set) \cup Members(test_set) \subseteq Members(series)
    /\ Members(train_set) \cap Members(test_set) = {}
    /\ \A o \in Members(series) :
          Year(o.date) >= Boundary =>
              (o \in Members(test_set) /\ o \notin Members(train_set))
    /\ StrictlyAscending(series) => TrainPrecedesTest

\* C10, as amended: after either split no observation is in both sets, every
\* observation dated in the boundary year or later is in the test set and not
\* in the training set, every observation of the series is in one of the two
\* sets except the observations before 2020 without a price, which
\* decompose_with_prophet puts in neither, and for a date-ascending series
\* every training observation precedes every test observation.
C10_SplitPartition ==
    SplitMade =>
        /\ SplitDisjointByYear
        /\ \A o \in Members(series) :
              Dropped(o) <=>
                  (o \notin Members(train_set) /\ o \notin Members(test_set))

\* C10 witness: decompose_with_prophet has split a date-ascending table
\* around 2020 into two sets that are not empty and has left an observation
\* without a price out of both.
C10_Witness ==
    /\ pc = <<"done">>
    /\ fn = "decompose_with_prophet"
    /\ ascending
    /\ train_set # <<>>
    /\ test_set # <<>>
    /\ \E o \in Members(series) : Dropped(o)

\* C10 as stated: the two sets partition the series, every observation is
\* in one of them.
C10_EveryObservationInASet ==
    SplitMade =>
        /\ SplitDisjointByYear
        /\ \A o \in Members(series) :
              o \in Members(train_set) \/ o \in Members(test_set)

----------------------------------------------------------------------------
(* The forecasts and the test set: C11 *)

\* C11: every fitted model of exponential_smoothing and arima_models is
\* asked for as many forecast steps as the test set has observations, and
\* the k-th step, which predicts the k-th period after the last training
\* observation, is paired with the k-th test observation and is for its
\* period.
C11_ForecastsMatchTest ==
    \A m \in DOMAIN forecasts :
        /\ Len(forecasts[m]) = Len(test_set)
        /\ \A k \in 1..Len(test_set) :
              /\ forecasts[m][k].date = test_set[k].date
              /\ forecasts[m][k].period = test_set[k].date

====
